---- MODULE Spec2Model ----
(***************************************************************************)
(* SmartLocker kiosk (src/Frontend/Front-locker.py) and its fingerprint    *)
(* service (src/Frontend/finger_service.py).                                *)
(*                                                                         *)
(* The specifications share the variables below:                           *)
(*   StoreSpec   - the SQLite helpers of Front-locker.py called directly   *)
(*   ServiceSpec - the methods of FingerprintService called directly       *)
(*   ServiceLiveSpec - ServiceSpec with the enrolling thread kept running  *)
(*   LiveSpec    - Spec with the poller and the workers kept running       *)
(*   Spec        - the running KioskApp: Tk handlers, the biometrics       *)
(*                 thread (init + finger_listen_loop), enrollment workers  *)
(*                 and open_locker threads                                 *)
(***************************************************************************)
EXTENDS Naturals, FiniteSets, Sequences, Bags, TLC

\* ------------------------------------------------------------------ bounds
\* template slots scanned by find_empty_slot (range(1, 128) in the source)
MaxSlot == 2
\* open_locker threads alive at the same time
MaxOpen == 2
\* enrollment worker threads alive at the same time
MaxEnroll == 2

\* ------------------------------------------------------------------ values
None == "None"
Slots == 1..MaxSlot
\* the username column of fingerprints
Identities == {"ana", "bia"}
\* what name_entry.get().strip() can give in the kiosk
NameEntries == {"ana", ""}
Unknown == "Desconhecido"
\* admin usernames typed into the login popup
Users == {"admin", "nouser"}
Passwords == {"admin123", "novo"}
Salts == {"s1", "s2"}

VARIABLES
    \* --- SQLite file smartlocker.db
    dbInit,        \* the tables exist (init_db has run)
    admins,        \* rows <<username, password_hash>>
    fingerprints,  \* rows <<finger_id, username>>
    wtxn,          \* save_finger_map between execute and commit: <<>> or <<finger_id, username>>
    \* --- observations of the store
    seen,          \* last result of get_user_by_finger: <<>> or <<finger_id, value>>
    secret,        \* ghost: the password last set for "admin" (bootstrap or change)
    lastPut,       \* ghost: per slot, the identity of the last committed save_finger_map
    everPut,       \* ghost: per slot, every identity a save_finger_map was called with
    reinit         \* ghost: init_db ran again after a password change

VARIABLES
    \* --- the sensor and FingerprintService
    available,     \* FingerprintService.available
    templates,     \* slots of the sensor's flash that hold a template
    svc,           \* a direct caller of FingerprintService: [pc, loc, ret, val, cause,
                   \* polls, lifted]
    retFor         \* ghost: per failure cause, the value enroll_finger returned for it

VARIABLES
    \* --- KioskApp
    running,              \* self.running (False once quit_app ends the process)
    GPIO_AVAILABLE,       \* module global set at import
    pin,                  \* level of SOLENOID_PIN
    admin_authenticated,  \* self.admin_authenticated
    admin_user,           \* self.admin_user
    finger_service,       \* self.finger_service is set
    biometrics_ready,     \* self.biometrics_ready
    is_enrolling_finger,  \* self.is_enrolling_finger
    bio,                  \* the biometrics thread: init_biometrics_thread, then finger_listen_loop
    workers,              \* the live enrollment worker threads, a bag of
                          \* [pc, slot, user, outcome]
    openers,              \* open_locker threads: how many are before the HIGH write
                          \* (start) and how many between HIGH and LOW (hold)
    ui                    \* the modal messagebox the Tk thread is showing, or "none"

appVars == <<running, GPIO_AVAILABLE, pin, admin_authenticated, admin_user, finger_service,
             biometrics_ready, is_enrolling_finger, bio, workers, openers, ui>>
storeVars == <<dbInit, admins, fingerprints, wtxn, seen, secret, lastPut, everPut, reinit>>
devVars == <<available, templates>>
svcVars == <<svc, retFor>>

\* ------------------------------------------------------------------ bcrypt
\* bcrypt.hashpw(pw, salt): the salt is kept in the hash, the digest depends on both
hashpw(pw, salt) == [salt |-> salt, digest |-> <<"bcrypt", salt, pw>>]

\* bcrypt.checkpw(pw, stored): rehash with the stored salt and compare
checkpw(pw, stored) == hashpw(pw, stored.salt) = stored

\* ------------------------------------------------------------------ store
DefaultUser == "admin"
DefaultPw == "admin123"

\* init_db's bootstrap: insert admin/admin123 whatever the table holds
init_db_always(adm, salt) ==
    {r \in adm : r[1] # DefaultUser} \cup {<<DefaultUser, hashpw(DefaultPw, salt)>>}

\* init_db: SELECT COUNT(*) FROM admins; insert the default admin only when it is 0
init_db(adm, salt) ==
    IF Cardinality(adm) = 0
    THEN adm \cup {<<DefaultUser, hashpw(DefaultPw, salt)>>}
    ELSE adm

\* check_admin_login: no row -> False, else bcrypt.checkpw against the stored hash
check_admin_login(adm, username, password) ==
    LET rows == {r \in adm : r[1] = username}
    IN  IF rows = {} THEN FALSE
        ELSE checkpw(password, (CHOOSE r \in rows : TRUE)[2])

\* change_admin_password: UPDATE admins SET password_hash = ? WHERE username = ?
change_admin_password(adm, username, new_password, salt) ==
    {IF r[1] = username THEN <<r[1], hashpw(new_password, salt)>> ELSE r : r \in adm}

\* a plain INSERT that leaves the older row of the slot in place
save_finger_map_insert(fp, finger_id, username) ==
    fp \cup {<<finger_id, username>>}

\* save_finger_map: INSERT OR REPLACE INTO fingerprints (finger_id is the primary key)
save_finger_map(fp, finger_id, username) ==
    {r \in fp : r[1] # finger_id} \cup {<<finger_id, username>>}

\* get_user_by_finger: SELECT username WHERE finger_id = ?; row[0] or "Desconhecido"
get_user_by_finger(fp, finger_id) ==
    LET rows == {r \in fp : r[1] = finger_id}
    IN  IF rows = {} THEN Unknown ELSE (CHOOSE r \in rows : TRUE)[2]

\* ------------------------------------------------------------ store actions
StoreInit ==
    /\ dbInit = FALSE
    /\ admins = {}
    /\ fingerprints = {}
    /\ wtxn = <<>>
    /\ seen = <<>>
    /\ secret = None
    /\ lastPut = [s \in Slots |-> None]
    /\ everPut = [s \in Slots |-> {}]
    /\ reinit = FALSE

\* module import (line 174): init_db() runs before anything else can use the file
StoreInitDb ==
    /\ wtxn = <<>>
    /\ \E salt \in Salts : admins' = init_db(admins, salt)
    /\ dbInit' = TRUE
    /\ secret' = IF admins = {} THEN DefaultPw ELSE secret
    /\ reinit' = (reinit \/ (dbInit /\ secret # DefaultPw))
    /\ UNCHANGED <<fingerprints, wtxn, seen, lastPut, everPut>>
    /\ UNCHANGED <<devVars, svcVars, appVars>>

StoreChangePw ==
    /\ dbInit
    /\ \E u \in Users, p \in Passwords, salt \in Salts :
          /\ admins' = change_admin_password(admins, u, p, salt)
          /\ secret' = IF u = DefaultUser THEN p ELSE secret
    /\ UNCHANGED <<dbInit, fingerprints, wtxn, seen, lastPut, everPut, reinit>>
    /\ UNCHANGED <<devVars, svcVars, appVars>>

\* save_finger_map up to cur.execute: the row is written inside an open transaction
StoreSaveExecute ==
    /\ dbInit
    /\ wtxn = <<>>
    /\ \E s \in Slots, id \in Identities :
          /\ wtxn' = <<s, id>>
          /\ everPut' = [everPut EXCEPT ![s] = @ \cup {id}]
    /\ UNCHANGED <<dbInit, admins, fingerprints, seen, secret, lastPut, reinit>>
    /\ UNCHANGED <<devVars, svcVars, appVars>>

\* save_finger_map's conn.commit(): the row becomes visible to other connections
StoreSaveCommit ==
    /\ wtxn # <<>>
    /\ fingerprints' = save_finger_map(fingerprints, wtxn[1], wtxn[2])
    /\ lastPut' = [lastPut EXCEPT ![wtxn[1]] = wtxn[2]]
    /\ wtxn' = <<>>
    /\ UNCHANGED <<dbInit, admins, seen, secret, everPut, reinit>>
    /\ UNCHANGED <<devVars, svcVars, appVars>>

\* get_user_by_finger on another connection: reads the committed rows
StoreRead ==
    /\ dbInit
    /\ \E s \in Slots : seen' = <<s, get_user_by_finger(fingerprints, s)>>
    /\ UNCHANGED <<dbInit, admins, fingerprints, wtxn, secret, lastPut, everPut, reinit>>
    /\ UNCHANGED <<devVars, svcVars, appVars>>

\* ------------------------------------------------------- FingerprintService
\* adafruit_fingerprint confirmation codes the service tells apart
OK == "OK"
NOFINGER == "NOFINGER"
FAIL == "FAIL"
\* a serial fault: the library raises instead of returning a code
RAISE == "RAISE"
\* no slot / no finger id (Python None where the source returns an int)
NoSlot == 0

\* __init__: serial.Serial or check_module may raise (caught: available = False),
\* else available = check_module()
FingerprintService_init == {TRUE, FALSE}

RECURSIVE scan_slots(_, _)
\* the for loop of find_empty_slot from slot i: load_model(i) != OK on an empty slot
scan_slots(i, tpl) ==
    IF i > MaxSlot THEN NoSlot
    ELSE IF i \notin tpl THEN i
    ELSE scan_slots(i + 1, tpl)

\* find_empty_slot: None when not available, else the lowest slot that fails to load
find_empty_slot(avail, tpl) ==
    IF ~avail THEN NoSlot ELSE scan_slots(1, tpl)

\* a frame of a FingerprintService call: where it is, what it returned, the parity
\* of the passes made through the while loop it is in, and (ghost) whether
\* get_image() has answered NOFINGER since the first capture was converted
Frame(pc, loc, ret, val, cause) ==
    [pc |-> pc, loc |-> loc, ret |-> ret, val |-> val, cause |-> cause, polls |-> 0,
     lifted |-> FALSE]
Returned(ret, val, cause) == Frame("idle", NoSlot, ret, val, cause)

\* check_finger, one sensor call per step: get_image, image_2_tz(1), finger_search;
\* the successors of a frame at pc
check_finger_step(pc, avail, tpl) ==
    CASE pc = "cf_get_image" ->
           IF ~avail THEN {Returned("None", NoSlot, "unavailable")}
           ELSE {Frame("cf_image_2_tz", NoSlot, "-", NoSlot, "-"),
                 Returned("None", NoSlot, "nofinger"),
                 Returned(RAISE, NoSlot, "fault")}
      [] pc = "cf_image_2_tz" ->
           {Frame("cf_finger_search", NoSlot, "-", NoSlot, "-"),
            Returned("None", NoSlot, "convert"),
            Returned(RAISE, NoSlot, "fault")}
      [] pc = "cf_finger_search" ->
           {Returned("Some", s, "-") : s \in tpl}
             \cup {Returned("None", NoSlot, "nomatch"), Returned(RAISE, NoSlot, "fault")}
      [] OTHER -> {}

\* what get_image() can answer
GetImageCodes == {OK, NOFINGER, FAIL}

\* a removal loop that is left on any answer other than OK
removal_done_not_ok(code) == code # OK

\* "while self.sensor.get_image() != NOFINGER: pass": the answer that ends the loop
removal_done(code) == code = NOFINGER

\* enroll_finger(location_id), one sensor call per step; a successor is the next
\* frame and the flash contents
enroll_finger_step(f, avail, tpl) ==
    LET at(pc) == [f |-> [Frame(pc, f.loc, "-", NoSlot, "-") EXCEPT !.lifted = f.lifted],
                   tpl |-> tpl]
        \* "pass": the loop condition held, get_image() is called once more
        again == [f |-> [f EXCEPT !.polls = 1 - @], tpl |-> tpl]
        ret(r, cause) == [f |-> Returned(r, NoSlot, cause), tpl |-> tpl]
        fault == ret(RAISE, "fault")
    IN CASE f.pc = "ef_entry" ->
              IF ~avail THEN {ret("False", "unavailable")} ELSE {at("ef_get_image_1")}
         [] f.pc = "ef_get_image_1" ->      \* while get_image() != OK: pass
              {at("ef_image_2_tz_1"), again, fault}
         [] f.pc = "ef_image_2_tz_1" ->
              {at("ef_remove"), ret("False", "convert"), fault}
         [] f.pc = "ef_remove" ->           \* while get_image() != NOFINGER: pass
              {IF removal_done(code)
               THEN [f |-> [Frame("ef_get_image_2", f.loc, "-", NoSlot, "-")
                              EXCEPT !.lifted = (code = NOFINGER)],
                     tpl |-> tpl]
               ELSE again : code \in GetImageCodes} \cup {fault}
         [] f.pc = "ef_get_image_2" ->      \* while get_image() != OK: pass
              {at("ef_image_2_tz_2"), again, fault}
         [] f.pc = "ef_image_2_tz_2" ->
              {at("ef_create_model"), ret("False", "convert"), fault}
         [] f.pc = "ef_create_model" ->     \* non-OK: the two captures do not match
              {at("ef_store_model"), ret("False", "mismatch"), fault}
         [] f.pc = "ef_store_model" ->
              {[f |-> Returned("True", NoSlot, "-"), tpl |-> tpl \cup {f.loc}],
               ret("False", "store"), fault}
         [] OTHER -> {}

\* delete_finger: delete_model(location_id) == OK
delete_finger(avail, tpl, loc) ==
    IF ~avail THEN {[ret |-> "False", tpl |-> tpl]}
    ELSE {[ret |-> "True", tpl |-> tpl \ {loc}], [ret |-> "False", tpl |-> tpl]}

\* ---------------------------------------------------------- service actions
FailureCauses == {"mismatch", "convert", "store"}

ServiceInit ==
    /\ available = FALSE
    /\ templates \in SUBSET Slots
    /\ svc = Frame("new", NoSlot, "-", NoSlot, "-")
    /\ retFor = [c \in FailureCauses |-> None]

SvcConstruct ==
    /\ svc.pc = "new"
    /\ available' \in FingerprintService_init
    /\ svc' = Returned("-", NoSlot, "-")
    /\ UNCHANGED <<templates, retFor>>
    /\ UNCHANGED <<storeVars, appVars>>

SvcFindEmptySlot ==
    /\ svc.pc = "idle"
    /\ LET s == find_empty_slot(available, templates)
       IN  svc' = IF s = NoSlot THEN Returned("None", NoSlot, "-")
                  ELSE Returned("Some", s, "-")
    /\ UNCHANGED <<available, templates, retFor>>
    /\ UNCHANGED <<storeVars, appVars>>

SvcCallEnroll ==
    /\ svc.pc = "idle"
    /\ \E loc \in Slots : svc' = Frame("ef_entry", loc, "-", NoSlot, "-")
    /\ UNCHANGED <<available, templates, retFor>>
    /\ UNCHANGED <<storeVars, appVars>>

SvcEnrollStep ==
    /\ \E n \in enroll_finger_step(svc, available, templates) :
          /\ svc' = n.f
          /\ templates' = n.tpl
          /\ retFor' = IF n.f.pc = "idle" /\ n.f.cause \in FailureCauses
                        THEN [retFor EXCEPT ![n.f.cause] = n.f.ret]
                        ELSE retFor
    /\ UNCHANGED available
    /\ UNCHANGED <<storeVars, appVars>>

SvcCallCheck ==
    /\ svc.pc = "idle"
    /\ svc' = Frame("cf_get_image", NoSlot, "-", NoSlot, "-")
    /\ UNCHANGED <<available, templates, retFor>>
    /\ UNCHANGED <<storeVars, appVars>>

SvcCheckStep ==
    /\ \E n \in check_finger_step(svc.pc, available, templates) : svc' = n
    /\ UNCHANGED <<available, templates, retFor>>
    /\ UNCHANGED <<storeVars, appVars>>

SvcDelete ==
    /\ svc.pc = "idle"
    /\ \E loc \in Slots :
          \E n \in delete_finger(available, templates, loc) :
              /\ svc' = Returned(n.ret, NoSlot, "-")
              /\ templates' = n.tpl
    /\ UNCHANGED <<available, retFor>>
    /\ UNCHANGED <<storeVars, appVars>>

vars == <<storeVars, devVars, svcVars, appVars>>

\* ----------------------------------------------------------------- KioskApp
\* the enrollment worker threads that are alive
Workers == BagToSet(workers)
\* a worker thread goes from state r to state n / ends in state r
worker_step(ws, r, n) == (ws (-) SetToBag({r})) (+) SetToBag({n})
worker_end(ws, r) == ws (-) SetToBag({r})
NoOpeners == [start |-> 0, hold |-> 0]
BioStart == [pc |-> "init", ret |-> "-", val |-> NoSlot]

AppInit ==
    /\ running = TRUE
    /\ GPIO_AVAILABLE \in BOOLEAN
    /\ pin = "LOW"
    /\ admin_authenticated = FALSE
    /\ admin_user = None
    /\ finger_service = FALSE
    /\ biometrics_ready = FALSE
    /\ is_enrolling_finger = FALSE
    /\ bio = BioStart
    /\ workers = EmptyBag
    /\ openers = NoOpeners
    /\ ui = "none"

\* --- open_locker threads
\* a further open_locker thread can be started
CanOpen == openers.start + openers.hold < MaxOpen

\* threading.Thread(target=self.open_locker).start(): one more thread at the top of
\* open_locker
start_open_locker(ops) == [ops EXCEPT !.start = @ + 1]

\* GPIO.output(SOLENOID_PIN, level): the level is driven, or the call raises
gpio_output(level) == {level, RAISE}

\* open_locker up to time.sleep(2): the HIGH write (or the simulation branch); an
\* exception ends the thread in the except clause
OpenLockerAssert ==
    /\ running
    /\ openers.start > 0
    /\ IF GPIO_AVAILABLE
       THEN \E r \in gpio_output("HIGH") :
              IF r = RAISE
              THEN /\ openers' = [openers EXCEPT !.start = @ - 1]
                   /\ UNCHANGED pin
              ELSE /\ openers' = [start |-> openers.start - 1, hold |-> openers.hold + 1]
                   /\ pin' = r
       ELSE /\ openers' = [start |-> openers.start - 1, hold |-> openers.hold + 1]
            /\ UNCHANGED pin
    /\ UNCHANGED <<running, GPIO_AVAILABLE, admin_authenticated, admin_user, finger_service,
                   biometrics_ready, is_enrolling_finger, bio, workers, ui>>
    /\ UNCHANGED <<storeVars, devVars, svcVars>>

\* open_locker after time.sleep(2): the LOW write, then the thread ends
OpenLockerDeassert ==
    /\ running
    /\ openers.hold > 0
    /\ openers' = [openers EXCEPT !.hold = @ - 1]
    /\ IF GPIO_AVAILABLE
       THEN \E r \in gpio_output("LOW") :
              IF r = RAISE THEN UNCHANGED pin ELSE pin' = r
       ELSE UNCHANGED pin
    /\ UNCHANGED <<running, GPIO_AVAILABLE, admin_authenticated, admin_user, finger_service,
                   biometrics_ready, is_enrolling_finger, bio, workers, ui>>
    /\ UNCHANGED <<storeVars, devVars, svcVars>>

\* --- the biometrics thread
\* init_biometrics_thread: FingerprintService(); when available publish it, set
\* biometrics_ready and enter finger_listen_loop, else the thread ends
\* an init_biometrics_thread that publishes the service whatever service.available is
init_biometrics_thread_always(a) ==
    [finger_service |-> TRUE, biometrics_ready |-> TRUE, pc |-> "loop"]

\* "if service.available:" publish, set ready and go on to finger_listen_loop; else
\* (and in the except clause) leave everything as __init__ set it and end the thread
init_biometrics_thread(a) ==
    [finger_service |-> a, biometrics_ready |-> a, pc |-> IF a THEN "loop" ELSE "off"]

InitBiometricsThread ==
    /\ running
    /\ bio.pc = "init"
    /\ \E a \in FingerprintService_init :
          LET r == init_biometrics_thread(a)
          IN  /\ available' = a
              /\ finger_service' = r.finger_service
              /\ biometrics_ready' = r.biometrics_ready
              /\ bio' = [bio EXCEPT !.pc = r.pc]
    /\ UNCHANGED <<running, GPIO_AVAILABLE, pin, admin_authenticated, admin_user,
                   is_enrolling_finger, workers, openers, ui>>
    /\ UNCHANGED <<storeVars, templates, svcVars>>

\* a loop head that looks at biometrics_ready only
poller_may_poll_ready(ready, enrolling) == ready

\* the top of finger_listen_loop's while: the poller may call the sensor only when
\* it reads biometrics_ready true and is_enrolling_finger false
poller_may_poll(ready, enrolling) == ready /\ ~enrolling

\* one pass of the loop head: go on to check_finger, or to sleep(1) and "continue"
PollerLoopHead ==
    /\ running
    /\ bio.pc = "loop"
    /\ bio' = [pc |-> IF poller_may_poll(biometrics_ready, is_enrolling_finger)
                      THEN "cf_get_image" ELSE "sleep",
               ret |-> "-", val |-> NoSlot]
    /\ UNCHANGED <<running, GPIO_AVAILABLE, pin, admin_authenticated, admin_user,
                   finger_service, biometrics_ready, is_enrolling_finger, workers, openers, ui>>
    /\ UNCHANGED <<storeVars, devVars, svcVars>>

\* time.sleep(1) of a pass that found the poller suspended is over: "continue"
PollerSleep ==
    /\ running
    /\ bio.pc = "sleep"
    /\ bio' = [bio EXCEPT !.pc = "loop"]
    /\ UNCHANGED <<running, GPIO_AVAILABLE, pin, admin_authenticated, admin_user,
                   finger_service, biometrics_ready, is_enrolling_finger, workers, openers, ui>>
    /\ UNCHANGED <<storeVars, devVars, svcVars>>

PollerInCheckFinger == bio.pc \in {"cf_get_image", "cf_image_2_tz", "cf_finger_search"}

\* self.finger_service.check_finger(), one sensor call per step
PollerCheckFinger ==
    /\ running
    /\ PollerInCheckFinger
    /\ \E n \in check_finger_step(bio.pc, available, templates) :
          bio' = IF n.pc = "idle"
                 THEN [pc |-> "got", ret |-> n.ret, val |-> n.val]
                 ELSE [pc |-> n.pc, ret |-> "-", val |-> NoSlot]
    /\ UNCHANGED <<running, GPIO_AVAILABLE, pin, admin_authenticated, admin_user,
                   finger_service, biometrics_ready, is_enrolling_finger, workers, openers, ui>>
    /\ UNCHANGED <<storeVars, devVars, svcVars>>

\* a poller that opens the locker whatever check_finger returned
poller_opens_always(ret) == TRUE

\* a poller with the test on fid inverted
poller_opens_none(ret) == ret = "None"

\* "if fid is not None": the poller opens the locker for every such result
poller_opens(ret) == ret = "Some"

\* a poller whose thread ends when check_finger raises
poller_next_fatal(ret) ==
    IF ret = RAISE THEN "off" ELSE IF ret = "Some" THEN "cooling" ELSE "loop"

\* a poller that goes on polling right after a match
poller_next_no_delay(ret) == "loop"

\* where the poller goes after an iteration: every branch stays inside the while
\* loop; a finger id is followed by time.sleep(3) ("para nao abrir repetidamente"),
\* None by sleep(0.1) and the except clause by sleep(1)
poller_next(ret) == IF ret = "Some" THEN "cooling" ELSE "loop"

\* the rest of the try block: on a finger id look the user up, start open_locker and
\* sleep(3); on None sleep(0.1); on an exception print and sleep(1); then loop
PollerHandle ==
    /\ running
    /\ bio.pc = "got"
    /\ IF poller_opens(bio.ret)
       THEN /\ CanOpen
            /\ openers' = start_open_locker(openers)
       ELSE UNCHANGED openers
    /\ bio' = IF poller_next(bio.ret) = "cooling"
              THEN [bio EXCEPT !.pc = "cooling"]
              ELSE [pc |-> poller_next(bio.ret), ret |-> "-", val |-> NoSlot]
    /\ UNCHANGED <<running, GPIO_AVAILABLE, pin, admin_authenticated, admin_user,
                   finger_service, biometrics_ready, is_enrolling_finger, workers, ui>>
    /\ UNCHANGED <<storeVars, devVars, svcVars>>

\* time.sleep(3) after a match is over: back to the top of the while loop
PollerCooled ==
    /\ running
    /\ bio.pc = "cooling"
    /\ bio' = [pc |-> "loop", ret |-> "-", val |-> NoSlot]
    /\ UNCHANGED <<running, GPIO_AVAILABLE, pin, admin_authenticated, admin_user,
                   finger_service, biometrics_ready, is_enrolling_finger, workers, openers, ui>>
    /\ UNCHANGED <<storeVars, devVars, svcVars>>

\* --- enrollment
\* the checks of enroll_finger_ui in source order: what the handler ends in
enroll_finger_ui_swapped(auth, ready, fs, name) ==
    IF ~ready \/ ~fs THEN "enroll:SensorUnavailable"
    ELSE IF ~auth THEN "enroll:Unauthorized"
    ELSE IF name = "" THEN "enroll:NoName"
    ELSE "enroll:start"

\* the checks without the one on biometrics_ready and finger_service
enroll_finger_ui_unready(auth, ready, fs, name) ==
    IF ~auth THEN "enroll:Unauthorized"
    ELSE IF name = "" THEN "enroll:NoName"
    ELSE "enroll:start"

enroll_finger_ui(auth, ready, fs, name) ==
    IF ~auth THEN "enroll:Unauthorized"
    ELSE IF ~ready \/ ~fs THEN "enroll:SensorUnavailable"
    ELSE IF name = "" THEN "enroll:NoName"
    ELSE "enroll:start"

\* a further worker thread can be started
CanEnroll == BagCardinality(workers) < MaxEnroll

\* the "Cadastrar Digital" button: a messagebox, or is_enrolling_finger = True and a
\* new worker thread
EnrollFingerUi ==
    /\ running
    /\ ui = "none"
    /\ \E name \in NameEntries :
          LET out == enroll_finger_ui(admin_authenticated, biometrics_ready,
                                      finger_service, name)
          IN  IF out = "enroll:start"
              THEN /\ CanEnroll
                   /\ workers' = workers (+) SetToBag({[pc |-> "find_empty_slot",
                                                       slot |-> NoSlot, user |-> name,
                                                       outcome |-> "-"]})
                   /\ is_enrolling_finger' = TRUE
                   /\ UNCHANGED ui
              ELSE /\ ui' = out
                   /\ UNCHANGED <<workers, is_enrolling_finger>>
    /\ UNCHANGED <<running, GPIO_AVAILABLE, pin, admin_authenticated, admin_user,
                   finger_service, biometrics_ready, bio, openers>>
    /\ UNCHANGED <<storeVars, devVars, svcVars>>

\* a worker that goes on to enroll_finger whatever find_empty_slot returned
worker_slot_branch_unchecked(w, slot) == [w EXCEPT !.pc = "enroll_finger", !.slot = slot]

\* "if slot is None: ... return" (into finally), else on to enroll_finger(slot)
worker_slot_branch(w, slot) ==
    IF slot = NoSlot THEN [w EXCEPT !.pc = "finally", !.outcome = "NoSlot"]
    ELSE [w EXCEPT !.pc = "enroll_finger", !.slot = slot]

\* worker: slot = self.finger_service.find_empty_slot(); None -> "Memoria cheia" and
\* return; a serial fault raises into the worker's except
WorkerFindEmptySlot ==
    /\ running
    /\ \E w \in Workers, fault \in BOOLEAN :
          /\ w.pc = "find_empty_slot"
          /\ LET slot == find_empty_slot(available, templates)
             IN  workers' = worker_step(workers, w,
                   IF fault THEN [w EXCEPT !.pc = "finally", !.outcome = "DeviceFault"]
                   ELSE worker_slot_branch(w, slot))
    /\ UNCHANGED <<running, GPIO_AVAILABLE, pin, admin_authenticated, admin_user,
                   finger_service, biometrics_ready, is_enrolling_finger, bio, openers, ui>>
    /\ UNCHANGED <<storeVars, devVars, svcVars>>

\* def enroll_finger(self, location_id)
EnrollFingerParams == {"self", "location_id"}
\* the keyword arguments of the worker's call: enroll_finger(slot, callback_status=...)
WorkerCallKeywords == {"callback_status"}

\* what the worker's call of enroll_finger can end in: Python raises TypeError before
\* the body runs when a keyword names no parameter
worker_enroll_call ==
    IF WorkerCallKeywords \subseteq EnrollFingerParams
    THEN {"True", "False", RAISE}
    ELSE {"TypeError"}

\* the worker saving the mapping whatever enroll_finger ended in
worker_store_always(r, fp, slot, user) == save_finger_map(fp, slot, user)

\* "if success: save_finger_map(slot, user_name)"
worker_store(r, fp, slot, user) ==
    IF r = "True" THEN save_finger_map(fp, slot, user) ELSE fp

\* worker: success = enroll_finger(slot, callback_status=update_status), then the
\* if/else on success; an exception goes to except, everything ends in finally
WorkerEnrollFinger ==
    /\ running
    /\ \E w \in Workers, r \in worker_enroll_call :
          /\ w.pc = "enroll_finger"
          /\ workers' = worker_step(workers, w,
                            [w EXCEPT !.pc = "finally",
                                      !.outcome = CASE r = "True" -> "Success"
                                                    [] r = "False" -> "Failed"
                                                    [] r = RAISE -> "DeviceFault"
                                                    [] OTHER -> r])
          /\ fingerprints' = worker_store(r, fingerprints, w.slot, w.user)
          /\ templates' = IF r = "True" THEN templates \cup {w.slot} ELSE templates
    /\ UNCHANGED <<running, GPIO_AVAILABLE, pin, admin_authenticated, admin_user,
                   finger_service, biometrics_ready, is_enrolling_finger, bio, openers, ui>>
    /\ UNCHANGED <<dbInit, admins, wtxn, seen, secret, lastPut, everPut, reinit>>
    /\ UNCHANGED <<available, svcVars>>

\* a worker that releases the sensor only after a successful enrollment
worker_release_on_success(outcome) == outcome # "Success"

\* a worker without the finally clause
worker_release_never(outcome) == TRUE

\* what the finally clause leaves in is_enrolling_finger, whatever way the try block
\* was left (return, fall through, exception)
worker_release(outcome) == FALSE

\* worker's finally: self.is_enrolling_finger = False, and the thread ends
WorkerFinally ==
    /\ running
    /\ \E w \in Workers :
          /\ w.pc = "finally"
          /\ workers' = worker_end(workers, w)
          /\ is_enrolling_finger' = worker_release(w.outcome)
    /\ UNCHANGED <<running, GPIO_AVAILABLE, pin, admin_authenticated, admin_user,
                   finger_service, biometrics_ready, bio, openers, ui>>
    /\ UNCHANGED <<storeVars, devVars, svcVars>>

\* --- Tk handlers
\* a try_login that lets every filled-in form through
try_login_unchecked(adm, user, pw) ==
    IF user = "" \/ pw = "" THEN "login:Empty" ELSE "login:Welcome"

\* try_login: what the handler ends in for the typed user and password
try_login(adm, user, pw) ==
    IF user = "" \/ pw = "" THEN "login:Empty"
    ELSE IF check_admin_login(adm, user, pw) THEN "login:Welcome"
    ELSE "login:Invalid"

\* try_login of admin_login_popup: on ok the flag and admin_user are set
TryLogin ==
    /\ running
    /\ ui = "none"
    /\ \E u \in Users \cup {""}, pw \in Passwords \cup {""} :
          /\ ui' = try_login(admins, u, pw)
          /\ IF ui' = "login:Welcome"
             THEN /\ admin_authenticated' = TRUE
                  /\ admin_user' = u
             ELSE UNCHANGED <<admin_authenticated, admin_user>>
    /\ UNCHANGED <<running, GPIO_AVAILABLE, pin, finger_service, biometrics_ready,
                   is_enrolling_finger, bio, workers, openers>>
    /\ UNCHANGED <<storeVars, devVars, svcVars>>

\* a change_pw_popup without the check of admin_authenticated
change_pw_popup_ungated(auth, new_pw) ==
    IF new_pw = "" THEN "chpw:Invalid" ELSE "chpw:Done"

\* change_pw_popup and do_change: what they end in ("chpw:Done": the call of
\* change_admin_password(self.admin_user, new_pw) and "Senha alterada")
change_pw_popup(auth, new_pw) ==
    IF ~auth THEN "chpw:Unauthorized"
    ELSE IF new_pw = "" THEN "chpw:Invalid"
    ELSE "chpw:Done"

\* change_pw_popup and its do_change
ChangePw ==
    /\ running
    /\ ui = "none"
    /\ \E new_pw \in Passwords \cup {""}, salt \in Salts :
          /\ ui' = change_pw_popup(admin_authenticated, new_pw)
          /\ IF ui' = "chpw:Done"
             THEN /\ admins' = change_admin_password(admins, admin_user, new_pw, salt)
                  /\ secret' = IF admin_user = DefaultUser THEN new_pw ELSE secret
             ELSE UNCHANGED <<admins, secret>>
    /\ UNCHANGED <<running, GPIO_AVAILABLE, pin, admin_authenticated, admin_user,
                   finger_service, biometrics_ready, is_enrolling_finger, bio, workers, openers>>
    /\ UNCHANGED <<dbInit, fingerprints, wtxn, seen, lastPut, everPut, reinit>>
    /\ UNCHANGED <<devVars, svcVars>>

\* an open_locker_manual without the check of admin_authenticated
open_locker_manual_ungated(auth) == "manual:Confirm"

\* open_locker_manual: the dialog it asks: without a session the offer to log in
\* (whatever the answer, it returns without open_locker), with one the confirmation
open_locker_manual(auth) ==
    IF ~auth THEN "manual:NeedsLogin" ELSE "manual:Confirm"

\* the "Abrir manualmente" button
OpenLockerManual ==
    /\ running
    /\ ui = "none"
    /\ ui' = open_locker_manual(admin_authenticated)
    /\ UNCHANGED <<running, GPIO_AVAILABLE, pin, admin_authenticated, admin_user,
                   finger_service, biometrics_ready, is_enrolling_finger, bio, workers,
                   openers>>
    /\ UNCHANGED <<storeVars, devVars, svcVars>>

\* the answer to "Deseja abrir o locker manualmente?": yes starts open_locker
ManualConfirm ==
    /\ running
    /\ ui = "manual:Confirm"
    /\ ui' = "none"
    /\ \E yes \in BOOLEAN :
          IF yes
          THEN /\ CanOpen
               /\ openers' = start_open_locker(openers)
          ELSE UNCHANGED openers
    /\ UNCHANGED <<running, GPIO_AVAILABLE, pin, admin_authenticated, admin_user,
                   finger_service, biometrics_ready, is_enrolling_finger, bio, workers>>
    /\ UNCHANGED <<storeVars, devVars, svcVars>>

\* recognize_once's worker: the API answered found, open_locker is started
RecognizeFound ==
    /\ running
    /\ CanOpen
    /\ openers' = start_open_locker(openers)
    /\ UNCHANGED <<running, GPIO_AVAILABLE, pin, admin_authenticated, admin_user,
                   finger_service, biometrics_ready, is_enrolling_finger, bio, workers, ui>>
    /\ UNCHANGED <<storeVars, devVars, svcVars>>

\* the operator closes the messagebox (for the offer to log in: either answer)
DismissBox ==
    /\ running
    /\ ui \notin {"none", "manual:Confirm"}
    /\ ui' = "none"
    /\ UNCHANGED <<running, GPIO_AVAILABLE, pin, admin_authenticated, admin_user,
                   finger_service, biometrics_ready, is_enrolling_finger, bio, workers, openers>>
    /\ UNCHANGED <<storeVars, devVars, svcVars>>

\* quit_app: running = False, root.destroy(), sys.exit(): the process and its daemon
\* threads are gone, the pin, the database and the sensor's flash stay as they are
QuitApp ==
    /\ running
    /\ ui = "none"
    /\ running' = FALSE
    /\ admin_authenticated' = FALSE
    /\ admin_user' = None
    /\ finger_service' = FALSE
    /\ biometrics_ready' = FALSE
    /\ is_enrolling_finger' = FALSE
    /\ bio' = BioStart
    /\ workers' = EmptyBag
    /\ openers' = NoOpeners
    /\ available' = FALSE
    /\ UNCHANGED <<GPIO_AVAILABLE, pin, ui, templates>>
    /\ UNCHANGED <<storeVars, svcVars>>

\* ------------------------------------------------------------ specifications
\* the store helpers called directly; the rest of the program is not running
StoreSpecInit ==
    /\ StoreInit
    /\ available = FALSE /\ templates = {}
    /\ svc = Frame("new", NoSlot, "-", NoSlot, "-")
    /\ retFor = [c \in FailureCauses |-> None]
    /\ AppInit /\ GPIO_AVAILABLE = FALSE

StoreNext ==
    \/ StoreInitDb
    \/ StoreChangePw
    \/ StoreSaveExecute
    \/ StoreSaveCommit
    \/ StoreRead

StoreSpec == StoreSpecInit /\ [][StoreNext]_vars

\* the state of the store once the module has been imported on an empty file
StoreAfterImport ==
    /\ dbInit = TRUE
    /\ \E salt \in Salts : admins = init_db({}, salt)
    /\ fingerprints = {}
    /\ wtxn = <<>>
    /\ seen = <<>>
    /\ secret = DefaultPw
    /\ lastPut = [s \in Slots |-> None]
    /\ everPut = [s \in Slots |-> {}]
    /\ reinit = FALSE

\* FingerprintService called directly by one caller
ServiceSpecInit ==
    /\ ServiceInit
    /\ StoreAfterImport
    /\ AppInit /\ GPIO_AVAILABLE = FALSE

ServiceNext ==
    \/ SvcConstruct
    \/ SvcFindEmptySlot
    \/ SvcCallEnroll
    \/ SvcEnrollStep
    \/ SvcCallCheck
    \/ SvcCheckStep
    \/ SvcDelete

ServiceSpec == ServiceSpecInit /\ [][ServiceNext]_vars

\* the same with the thread that runs enroll_finger always scheduled again: the
\* method has no sleep or wait it could block in other than the sensor calls
ServiceLiveSpec == ServiceSpec /\ WF_vars(SvcEnrollStep)

\* the kiosk after KioskApp.__init__: the store imported, the biometrics thread
\* started. The flash holds slots 1..k: enrollments take the lowest free slot
\* (find_empty_slot) and the kiosk never calls delete_finger
Init ==
    /\ StoreAfterImport
    /\ available = FALSE
    /\ templates \in {1..k : k \in 0..MaxSlot}
    /\ svc = Frame("new", NoSlot, "-", NoSlot, "-")
    /\ retFor = [c \in FailureCauses |-> None]
    /\ AppInit

Next ==
    \/ InitBiometricsThread
    \/ PollerLoopHead
    \/ PollerSleep
    \/ PollerCheckFinger
    \/ PollerHandle
    \/ PollerCooled
    \/ EnrollFingerUi
    \/ WorkerFindEmptySlot
    \/ WorkerEnrollFinger
    \/ WorkerFinally
    \/ TryLogin
    \/ ChangePw
    \/ OpenLockerManual
    \/ ManualConfirm
    \/ RecognizeFound
    \/ OpenLockerAssert
    \/ OpenLockerDeassert
    \/ DismissBox
    \/ QuitApp

Spec == Init /\ [][Next]_vars

\* the kiosk with its biometrics thread and its enrollment workers always scheduled
\* again: both are daemon threads that only sleep for a bounded time
LiveSpec ==
    /\ Spec
    /\ WF_vars(PollerLoopHead) /\ WF_vars(PollerSleep) /\ WF_vars(PollerCooled)
    /\ WF_vars(WorkerFinally)

\* ------------------------------------------------------------------- claims

\* C1: the sensor never sees interleaved calls from two owners: an enrollment
\* worker makes its first sensor call (find_empty_slot) only when no check_finger of
\* the poller is in flight, and the poller makes no sensor call while an enrollment
\* worker still has sensor calls ahead of it.
C1_Orig ==
    [][ running' =>
          /\ (\E w \in Workers : /\ w.pc = "find_empty_slot"
                                  /\ CopiesIn(w, workers') < CopiesIn(w, workers))
              => ~PollerInCheckFinger
          /\ (PollerInCheckFinger /\ bio' # bio)
              => \A w \in Workers : w.pc \notin {"find_empty_slot", "enroll_finger"}
      ]_vars

\* C2: a second activation request that arrives while an earlier activation is still
\* asserted is dropped: no HIGH write on the solenoid pin happens while another
\* open_locker is between its HIGH and its LOW write, so two requests in the window
\* give one assert/deassert cycle.
C2_Orig ==
    [][ (GPIO_AVAILABLE /\ openers'.hold > openers.hold) => openers.hold = 0 ]_vars

\* C3: activations are totally ordered: never two open_locker executions between
\* their HIGH and LOW writes at once, and while one holds the pin stays HIGH (no
\* other activation's LOW write cuts the hold short).
C3_Orig ==
    /\ openers.hold <= 1
    /\ (GPIO_AVAILABLE /\ openers.hold > 0) => pin = "HIGH"

\* C4: an enrollment started by an authenticated admin on a ready sensor with a free
\* slot, in which the sensor reports no failure (no fault, no failed capture,
\* conversion, create or store), ends in Success and get_user_by_finger of its slot
\* gives the enrolled identity.
C4_Orig ==
    \A w \in Workers :
        (w.pc = "finally" /\ w.outcome \notin {"NoSlot", "DeviceFault", "Failed"})
        => /\ w.outcome = "Success"
           /\ get_user_by_finger(fingerprints, w.slot) = w.user

\* C5: an enrollment that does not end in Success leaves the fingerprints table as it
\* was: the table changes only in the step in which an enrollment worker's
\* enroll_finger call ends in Success.
C5_StoreUnmodified ==
    [][ fingerprints' # fingerprints
        => \E w \in Workers :
             /\ w.pc = "enroll_finger"
             /\ workers' = worker_step(workers, w,
                                       [w EXCEPT !.pc = "finally", !.outcome = "Success"])
      ]_vars

\* an enrollment that found a slot, ended without Success and is about to release
\* the sensor
C5_Witness ==
    /\ \E w \in Workers : /\ w.pc = "finally"
                          /\ w.slot # NoSlot
                          /\ w.outcome # "Success"
    /\ fingerprints = {}

\* C6: a failed enrollment whose two captures did not match (create_model not OK) is
\* reported to the caller with a value different from the one a conversion or
\* storage fault is reported with.
C6_Orig ==
    \A c \in {"convert", "store"} :
        (retFor["mismatch"] # None /\ retFor[c] # None) => retFor["mismatch"] # retFor[c]

\* C7: save_finger_map(slot, a) followed by save_finger_map(slot, b) leaves
\* get_user_by_finger(slot) = b; a slot has at most one row; a reader running beside
\* the writes sees only "Desconhecido" or an identity that was put for that slot.
C7_LastPutWins ==
    /\ \A s \in Slots :
          lastPut[s] # None => get_user_by_finger(fingerprints, s) = lastPut[s]
    /\ \A r1, r2 \in fingerprints : r1[1] = r2[1] => r1 = r2
    /\ seen # <<>> => seen[2] \in {Unknown} \cup everPut[seen[1]]

\* both identities were put for a slot, "bia" last, and a reader has read it back
C7_Witness ==
    \E s \in Slots :
        /\ wtxn = <<>>
        /\ everPut[s] = {"ana", "bia"}
        /\ lastPut[s] = "bia"
        /\ seen = <<s, "bia">>

\* C8: once init_db has run, check_admin_login succeeds exactly for "admin" with the
\* secret last set for it: admin123 after the bootstrap on an empty table (any other
\* secret and any user without a row fail), and after a password change a further
\* init_db does not bring admin123 back.
C8_Bootstrap ==
    dbInit =>
        \A u \in Users, p \in Passwords :
            check_admin_login(admins, u, p) <=> (u = DefaultUser /\ p = secret)

\* init_db ran again after the admin password was changed to "novo"
C8_Witness ==
    /\ reinit
    /\ secret = "novo"
    /\ check_admin_login(admins, "admin", "novo")
    /\ ~check_admin_login(admins, "admin", "admin123")

\* C9: a poller iteration whose check_finger returned None starts no open_locker,
\* leaves the solenoid pin alone and goes back to the top of the loop (as long as
\* the operator does not quit the kiosk).
C9_NoneNeverActivates ==
    [][ (bio.pc = "got" /\ bio.ret = "None" /\ bio' # bio /\ running')
        => /\ openers' = openers
           /\ pin' = pin
           /\ bio'.pc = "loop" ]_vars

\* check_finger has just returned None to the poller
C9_Witness ==
    /\ bio.pc = "got"
    /\ bio.ret = "None"
    /\ running

\* C10: while admin_authenticated is false no step sets is_enrolling_finger, starts
\* or advances an enrollment worker or writes the fingerprints table, and
\* enroll_finger_ui ends in no other message than "Acesso negado" (the
\* authentication check comes before the sensor and the name checks).
C10_Unauthorized ==
    [][ ~admin_authenticated
        => /\ is_enrolling_finger' = is_enrolling_finger
           /\ workers' = workers
           /\ fingerprints' = fingerprints
           /\ (ui' # ui => ui' \notin {"enroll:SensorUnavailable", "enroll:NoName",
                                        "enroll:start"}) ]_vars

\* enroll_finger_ui answered "Acesso negado" although the sensor never became ready
C10_Witness ==
    /\ ui = "enroll:Unauthorized"
    /\ ~admin_authenticated
    /\ ~biometrics_ready
    /\ ~is_enrolling_finger

\* C11: enroll_finger_ui pressed by a logged-in admin while biometrics_ready is false
\* or finger_service is unset ends in the "Biometria nao inicializada" error and in
\* nothing else: while the subsystem is not ready no step sets is_enrolling_finger,
\* no enrollment worker exists or is started, and the poller is in no check_finger.
C11_SensorUnavailable ==
    [][ (admin_authenticated /\ (~biometrics_ready \/ ~finger_service) /\ running')
        => /\ ~is_enrolling_finger /\ ~is_enrolling_finger'
           /\ workers = EmptyBag /\ workers' = EmptyBag
           /\ ~PollerInCheckFinger /\ ~PollerInCheckFinger'
           /\ (ui' # ui => ui' \notin {"enroll:Unauthorized", "enroll:NoName",
                                        "enroll:start"}) ]_vars

\* a logged-in admin was told that the sensor is not there; nothing was started
C11_Witness ==
    /\ ui = "enroll:SensorUnavailable"
    /\ admin_authenticated
    /\ ~biometrics_ready
    /\ ~is_enrolling_finger
    /\ workers = EmptyBag

\* C12: the sensor is released on every way out of an enrollment worker: after a
\* step in which a worker thread ends is_enrolling_finger is false, and it is never
\* true in a state with no worker alive.
C12_ReleasedOnExit ==
    [][ running'
        => /\ BagCardinality(workers') < BagCardinality(workers) => ~is_enrolling_finger'
           /\ workers' = EmptyBag => ~is_enrolling_finger' ]_vars

\* is_enrolling_finger is false beside a live worker: it was set when that worker
\* was started, so another worker has ended and released since
C12_Witness ==
    /\ running
    /\ ~is_enrolling_finger
    /\ workers # EmptyBag

\* C13: every enroll_finger call that was started eventually returns (True or
\* False), also when the sensor keeps answering "no finger" in the first or second
\* capture loop or keeps answering "finger present" in the removal loop.
C13_Orig == (svc.pc = "ef_entry") ~> (svc.pc = "idle")

\* C14: a pass of finger_listen_loop that reads biometrics_ready false or
\* is_enrolling_finger true goes to sleep: it enters no check_finger, starts no
\* open_locker and leaves the pin alone; from the sleep the poller only goes back
\* to the top of the loop (as long as the operator does not quit the kiosk).
C14_SuspendedNoSensor ==
    [][ running'
        => /\ (bio.pc = "loop" /\ bio' # bio
                 /\ (~biometrics_ready \/ is_enrolling_finger))
              => (bio'.pc = "sleep" /\ openers' = openers /\ pin' = pin)
           /\ (bio.pc = "sleep" /\ bio' # bio)
              => (bio'.pc = "loop" /\ openers' = openers /\ pin' = pin) ]_vars

\* the poller found an enrollment going on and sleeps
C14_Witness ==
    /\ running
    /\ bio.pc = "sleep"
    /\ is_enrolling_finger

\* C15: only one enrollment worker is alive at a time, and is_enrolling_finger stays
\* true (the poller stays suspended) as long as a worker still has sensor calls to
\* make.
C15_Orig ==
    /\ BagCardinality(workers) <= 1
    /\ (\E w \in Workers : w.pc \in {"find_empty_slot", "enroll_finger"})
         => is_enrolling_finger

\* C16: the session can be ended: whenever an admin is logged in on the running
\* kiosk, a step (logout) is possible after which admin_authenticated is false and
\* the kiosk still runs.
C16_Orig ==
    (running /\ admin_authenticated)
        => ENABLED (Next /\ running' /\ ~admin_authenticated')

\* C17: open_locker_manual never leads to open_locker without a session: while
\* admin_authenticated is false the confirmation dialog that starts open_locker is
\* never shown, and neither showing the offer to log in nor answering it (yes or
\* no) starts an open_locker thread.
C17_ManualGated ==
    [][ ~admin_authenticated
        => /\ ui # "manual:Confirm" /\ ui' # "manual:Confirm"
           /\ (ui' # ui /\ "manual:NeedsLogin" \in {ui, ui'}) => openers' = openers
      ]_vars

\* the button was pressed without a session: the offer to log in is on screen and
\* no open_locker was started
C17_Witness ==
    /\ running
    /\ ui = "manual:NeedsLogin"
    /\ ~admin_authenticated
    /\ openers = NoOpeners
    /\ pin = "LOW"

\* C18: once FingerprintService() came up with available false the kiosk runs on
\* degraded for good: the biometrics thread has ended, biometrics_ready and
\* finger_service stay unset, the poller is in no check_finger, every method of the
\* service answers its failure value with the flash untouched, and open_locker can
\* still be started by a face match and by a confirmed manual opening.
C18_Degraded ==
    [][ (running /\ running' /\ bio.pc # "init" /\ ~available)
        => /\ bio.pc = "off" /\ bio' = bio
           /\ ~available'
           /\ ~biometrics_ready /\ ~biometrics_ready'
           /\ ~finger_service /\ ~finger_service'
           /\ find_empty_slot(available, templates) = NoSlot
           /\ check_finger_step("cf_get_image", available, templates)
                = {Returned("None", NoSlot, "unavailable")}
           /\ \A loc \in Slots :
                /\ enroll_finger_step(Frame("ef_entry", loc, "-", NoSlot, "-"),
                                      available, templates)
                     = {[f |-> Returned("False", NoSlot, "unavailable"), tpl |-> templates]}
                /\ delete_finger(available, templates, loc)
                     = {[ret |-> "False", tpl |-> templates]}
           /\ CanOpen => ENABLED RecognizeFound
           /\ (CanOpen /\ ui = "manual:Confirm") => ENABLED (ManualConfirm /\ openers' # openers)
      ]_vars

\* the sensor did not come up, and the locker is being held open all the same
C18_Witness ==
    /\ running
    /\ bio.pc = "off"
    /\ ~available
    /\ ~biometrics_ready
    /\ openers.hold > 0

\* C19: a poller iteration whose check_finger raised starts no open_locker, leaves
\* the pin alone and goes back to the top of the loop, and from the top of the loop
\* a poller that is not suspended goes into check_finger again (as long as the
\* operator does not quit the kiosk).
C19_FaultNotFatal ==
    [][ running'
        => /\ (bio.pc = "got" /\ bio.ret = RAISE /\ bio' # bio)
              => (bio'.pc = "loop" /\ openers' = openers /\ pin' = pin)
           /\ (bio.pc = "loop" /\ bio' # bio
                 /\ biometrics_ready /\ ~is_enrolling_finger)
              => bio'.pc = "cf_get_image"
           /\ bio.pc \notin {"init", "off"} => bio'.pc # "off" ]_vars

\* check_finger has just raised inside the poller
C19_Witness ==
    /\ running
    /\ bio.pc = "got"
    /\ bio.ret = RAISE

\* C20: once every open_locker that was started has returned, the solenoid pin is
\* LOW, also when one of its GPIO writes raised.
C20_Orig ==
    (running /\ GPIO_AVAILABLE /\ openers = NoOpeners) => pin = "LOW"

C22_ChangeGated ==
    [][ /\ (ui' = "chpw:Done" /\ ui' # ui) => admin_authenticated
        /\ admins' # admins
             => /\ admin_authenticated
                /\ ui' = "chpw:Done"
                /\ \A r \in admins : r[1] # admin_user => r \in admins'
                /\ {r[1] : r \in admins'} = {r[1] : r \in admins} ]_vars

\* the logged-in admin has changed the password to "novo"
C22_Witness ==
    /\ ui = "chpw:Done"
    /\ admin_authenticated
    /\ admin_user = DefaultUser
    /\ check_admin_login(admins, admin_user, "novo")

\* C23: a worker whose find_empty_slot finds no free slot goes straight to its
\* finally clause: it never reaches enroll_finger (no capture, convert, create or
\* store call), the step and its release leave the fingerprints table and the
\* flash as they were, and its end clears is_enrolling_finger.
C23_NoFreeSlot ==
    [][ running' =>
          \A w \in Workers :
            /\ (/\ w.pc = "find_empty_slot"
                /\ find_empty_slot(available, templates) = NoSlot
                /\ CopiesIn(w, workers') < CopiesIn(w, workers))
               => /\ \E o \in {"NoSlot", "DeviceFault"} :
                        workers' = worker_step(workers, w,
                                               [w EXCEPT !.pc = "finally", !.outcome = o])
                  /\ fingerprints' = fingerprints
                  /\ templates' = templates
            /\ w.outcome = "NoSlot" => (w.pc = "finally" /\ w.slot = NoSlot)
            /\ w.pc = "enroll_finger" => w.slot # NoSlot
            /\ (w.pc = "finally" /\ w.outcome = "NoSlot" /\ workers' = worker_end(workers, w))
               => /\ ~is_enrolling_finger'
                  /\ fingerprints' = fingerprints
                  /\ templates' = templates ]_vars

\* the flash is full and the worker is on its way out
C23_Witness ==
    /\ templates = Slots
    /\ fingerprints = {}
    /\ \E w \in Workers : w.pc = "finally" /\ w.outcome = "NoSlot"

\* C24: enroll_finger never gets from the first capture to the second without the
\* sensor having answered "no finger" in between: whenever the call is past the
\* removal loop (waiting for, converting or storing the second capture),
\* get_image() has answered NOFINGER since the first capture was converted, and the
\* second capture loop is entered from the removal loop only.
C24_RemovalObserved ==
    [][ /\ svc'.pc \in {"ef_get_image_2", "ef_image_2_tz_2", "ef_create_model",
                         "ef_store_model"} => svc'.lifted
        /\ (svc'.pc = "ef_get_image_2" /\ svc.pc # "ef_get_image_2")
             => svc.pc = "ef_remove" ]_vars

\* the second capture was taken and is being converted
C24_Witness ==
    /\ svc.pc = "ef_image_2_tz_2"
    /\ svc.lifted

\* C25: a poller iteration whose check_finger returned a finger id starts exactly
\* one open_locker and goes into the sleep(3); out of that sleep the poller only
\* goes back to the top of the loop, with no sensor call and no further open_locker
\* of its own in between (as long as the operator does not quit the kiosk).
C25_Cooling ==
    [][ running'
        => /\ (bio.pc = "got" /\ bio.ret = "Some" /\ bio' # bio)
              => /\ bio'.pc = "cooling"
                 /\ openers' = start_open_locker(openers)
           /\ (bio.pc = "cooling" /\ bio' # bio)
              => (bio'.pc = "loop" /\ openers' = openers /\ pin' = pin)
           /\ (bio'.pc = "cooling" /\ bio.pc # "cooling")
              => (bio.pc = "got" /\ bio.ret = "Some") ]_vars

\* the poller sleeps after a match
C25_Witness ==
    /\ running
    /\ bio.pc = "cooling"
    /\ bio.ret = "Some"

\* C26: admin_authenticated becomes true, or admin_user changes, only in a try_login
\* step that ends in "Bem-vindo" for a user whose row check_admin_login accepts, and
\* a try_login that ends in "Preencha usuario e senha" or "Usuario ou senha
\* invalidos" leaves admin_authenticated and admin_user as they were.
C26_Authenticate ==
    [][ running'
        => /\ ((admin_authenticated' /\ ~admin_authenticated) \/ admin_user' # admin_user)
              => /\ ui = "none" /\ ui' = "login:Welcome"
                 /\ admin_authenticated'
                 /\ \E pw \in Passwords : check_admin_login(admins, admin_user', pw)
           /\ (ui' \in {"login:Empty", "login:Invalid"} /\ ui' # ui)
              => UNCHANGED <<admin_authenticated, admin_user>> ]_vars

\* a login attempt was turned down after an earlier one had succeeded: the session
\* is the one of the earlier login
C26_Witness ==
    /\ ui = "login:Invalid"
    /\ admin_authenticated
    /\ admin_user = DefaultUser

\* C27: once the poller sleeps because of an enrollment and every enrollment worker
\* has reached its finally clause or has ended, the poller eventually calls
\* check_finger again, unless the kiosk is quit or a further enrollment is started.
C27_PollerResumes ==
    (running /\ bio.pc = "sleep" /\ \A w \in Workers : w.pc = "finally")
        ~> (PollerInCheckFinger \/ ~running \/ \E w \in Workers : w.pc # "finally")

\* the poller is still asleep, the enrollment that suspended it is over
C27_Witness ==
    /\ running
    /\ bio.pc = "sleep"
    /\ workers = EmptyBag
    /\ ~is_enrolling_finger

\* C28: a poller iteration whose check_finger returned a finger id starts an
\* open_locker whatever get_user_by_finger gives for that id, "Desconhecido"
\* included.
C28_UnknownOpens ==
    [][ (running' /\ bio.pc = "got" /\ bio.ret \notin {"None", RAISE} /\ bio' # bio)
        => /\ bio.val \in templates
           /\ get_user_by_finger(fingerprints, bio.val) \in {Unknown} \cup Identities
           /\ openers'.start = openers.start + 1 ]_vars

\* the poller has opened for a template that has no row in fingerprints
C28_Witness ==
    /\ running
    /\ bio.pc = "cooling"
    /\ bio.val \in templates
    /\ get_user_by_finger(fingerprints, bio.val) = Unknown
    /\ openers # NoOpeners

====
